---- MODULE Spec2Model ----
(***************************************************************************)
(* Model of Canvas2d (packages/graphics-2d/src/pxn-canvas-2d.ts): the      *)
(* shape collection, the selection held by the shapes manager, the         *)
(* interaction mode with its deferred LitElement update, the keyboard      *)
(* handlers, the clipboard paste and the events dispatched to listeners.   *)
(*                                                                         *)
(* ObservableSet / observe (@pixano/core) and ShapesManager are not part   *)
(* of the given sources; their behaviour is taken from the specification   *)
(* (sections 4.1 to 4.5) and kept in separate definitions.                 *)
(***************************************************************************)
EXTENDS Integers, Sequences, FiniteSets, TLC

VARIABLES
  mode,               \* Canvas2d.mode
  changedProperties,  \* LitElement: properties changed since the last update
  shapes,             \* Canvas2d._shapes, in insertion order
  targetShapes,       \* shManager.targetShapes, in insertion order
  managerMode,        \* the mode the shapes manager was last handed
  events,             \* events dispatched by the last operation, in order
  lastOp,             \* the last operation and what it was called with
  nav,                \* Tab presses since the selection was last empty
  clipboard           \* what onCopy last returned to its caller

vars == <<mode, changedProperties, shapes, targetShapes, managerMode, events,
          lastOp, nav, clipboard>>

-----------------------------------------------------------------------------
(* Bounds *)

MaxShapes == 2
MaxTextLen == 5
MaxNav == 5
MaxTail == 2

-----------------------------------------------------------------------------
(* Values *)

Modes == {"edit", "create", "none"}

\* Ids are strings, modelled as sequences of characters.
\* Ids the host gives its shapes.  Nothing keeps onPaste from generating
\* one of them.
HostIds == {<<"a">>, <<"b">>}
NoId == <<"undefined">>
Payloads == {1}
\* Payload of a shape built from a value without own properties ({...3}).
EmptyPayload == 0
\* Payload of a shape built by spreading a non-empty array ({...[x]}).
ArrayPayload == 9

Refs == 1 .. (2 * (MaxShapes + 1))

-----------------------------------------------------------------------------
(* Sequences used as insertion-ordered sets of object references *)

Range(s) == {s[i] : i \in 1 .. Len(s)}

Has(s, x) == \E i \in 1 .. Len(s) : s[i].ref = x.ref

Without(s, x) == SelectSeq(s, LAMBDA y : y.ref # x.ref)

IdsOf(s) == [i \in 1 .. Len(s) |-> s[i].id]

RefsOf(s) == {s[i].ref : i \in 1 .. Len(s)}

\* A reference no live object has (a new object).
FreshRef(used) == CHOOSE r \in Refs \ used : \A q \in Refs \ used : r <= q

Shape(r, i, p) == [ref |-> r, id |-> i, p |-> p]

-----------------------------------------------------------------------------
(* Events *)

NoShape == Shape(0, NoId, EmptyPayload)

Ev(type, ids, shape, detail, w) ==
  [type |-> type, ids |-> ids, shape |-> shape, detail |-> detail,
   sel |-> IdsOf(w.ts)]

Emit(w, e) == [w EXCEPT !.ev = Append(@, e)]

notifySelection(w, ids) == Emit(w, Ev("selection", ids, NoShape, "", w))

notifyCreate(w, obj) == Emit(w, Ev("create", <<>>, obj, "", w))

notifyDelete(w, ids) == Emit(w, Ev("delete", ids, NoShape, "", w))

notifyUpdate(w, ids) == Emit(w, Ev("update", ids, NoShape, "", w))

-----------------------------------------------------------------------------
(* Observers registered on the two sets.  A "world" w is the record         *)
(* [sh, ts, mm, ev]: the collection, the selection, the manager's mode and  *)
(* the events dispatched so far by the running operation.                   *)

\* observe(this.shManager.targetShapes, (prop) => ...)
TargetShapesObserver(w, prop) ==
  IF prop # "set" THEN notifySelection(w, IdsOf(w.ts)) ELSE w

\* The shapes observer taking every event but 'add' for a removal.
ShapesObserverElseDelete(w, event, shape) ==
  IF event = "add" THEN notifyCreate(w, shape)
  ELSE notifyDelete(w, <<shape.id>>)

\* observe(this.shapes, (event, shape) => ...)
ShapesObserver(w, event, shape) ==
  IF event = "add" /\ shape # NoShape THEN notifyCreate(w, shape)
  ELSE IF event = "delete" /\ shape # NoShape
  THEN notifyDelete(w, <<shape.id>>)
  ELSE w

\* ObservableSet operations on the selection (specification 4.2): set and
\* clear each emit one "set" event, delete emits one "delete" event.
TargetSet(w, items) == TargetShapesObserver([w EXCEPT !.ts = items], "set")

TargetClear(w) == TargetShapesObserver([w EXCEPT !.ts = <<>>], "set")

TargetDelete(w, s) ==
  TargetShapesObserver([w EXCEPT !.ts = Without(@, s)], "delete")

\* The shapes manager's own observer of the collection (specification 3,
\* 4.2): a shape that leaves the collection leaves the selection at once; a
\* bulk replace drops the selected shapes that are gone, silently.
ManagerShapesObserver(w, event, shape) ==
  IF event = "delete"
  THEN IF Has(w.ts, shape) THEN TargetDelete(w, shape) ELSE w
  ELSE IF event = "set"
  THEN IF \A i \in 1 .. Len(w.ts) : Has(w.sh, w.ts[i])
       THEN w
       ELSE TargetSet(w, SelectSeq(w.ts, LAMBDA t : Has(w.sh, t)))
  ELSE w

\* ShapesManager.setMode (specification 4.3): nothing is done when the mode
\* is the one the manager is in; a transition into 'none' clears the
\* selection.
ManagerSetMode(w, m) ==
  IF m = w.mm THEN w
  ELSE IF m = "none" /\ w.ts # <<>> THEN TargetClear([w EXCEPT !.mm = m])
  ELSE [w EXCEPT !.mm = m]

\* The manager's 'update' event (specification 4.5): it reports a change of
\* geometry of the shapes it is editing, the selected ones.
ManagerUpdate(w) == IdsOf(w.ts)

\* initShapeManagerListeners: the listener of the manager's 'update' event.
ManagerUpdateListener(w, detail) == notifyUpdate(w, detail)

\* Observers of the collection run in subscription order: the manager is
\* constructed (and subscribes) before initShapeSetObserver is called.
ShapesNotify(w, event, shape) ==
  ShapesObserver(ManagerShapesObserver(w, event, shape), event, shape)

\* ObservableSet operations on the collection (specification 4.1).
ShapesAdd(w, s) ==
  ShapesNotify([w EXCEPT !.sh = IF Has(@, s) THEN @ ELSE Append(@, s)], "add", s)

ShapesDelete(w, s) ==
  ShapesNotify([w EXCEPT !.sh = Without(@, s)], "delete", s)

ShapesSet(w, items) == ShapesNotify([w EXCEPT !.sh = items], "set", NoShape)

-----------------------------------------------------------------------------
(* JavaScript arithmetic and array access used by onTabulation *)

\* a % n: the remainder has the sign of the dividend; NaN when n is 0.
JSRem(a, n) ==
  IF n = 0 THEN [nan |-> TRUE, v |-> 0]
  ELSE IF a >= 0 THEN [nan |-> FALSE, v |-> a % n]
  ELSE [nan |-> FALSE, v |-> 0 - ((0 - a) % n)]

\* arr[idx] with a 0-based index: <<element>>, or <<>> for undefined.
ArrayGet(arr, idx) ==
  IF idx.nan \/ idx.v < 0 \/ idx.v >= Len(arr) THEN <<>> ELSE <<arr[idx.v + 1]>>

\* shapes.findIndex((s) => targetShapes.has(s)): 0-based, -1 when none.
FindIndex(arr, ts) ==
  IF \E i \in 1 .. Len(arr) : Has(ts, arr[i])
  THEN (CHOOSE i \in 1 .. Len(arr) :
          Has(ts, arr[i]) /\ \A j \in 1 .. (i - 1) : ~Has(ts, arr[j])) - 1
  ELSE -1

\* x || 0: only a falsy x (0, NaN) is replaced, so -1 stays -1.
OrZero(x) == IF x = 0 THEN 0 ELSE x

CurrIdx(arr, ts) == OrZero(FindIndex(arr, ts))

\* NextIdx without "+ shapes.length" before the remainder.
NextIdxNoWrap(currIdx, shiftKey, n) ==
  IF shiftKey THEN JSRem(currIdx + 1, n) ELSE JSRem(currIdx - 1, n)

\* NextIdx with the two directions exchanged.
NextIdxSwapped(currIdx, shiftKey, n) ==
  IF shiftKey THEN JSRem(currIdx - 1 + n, n) ELSE JSRem(currIdx + 1 + n, n)

NextIdx(currIdx, shiftKey, n) ==
  IF shiftKey THEN JSRem(currIdx + 1 + n, n) ELSE JSRem(currIdx - 1 + n, n)

\* onTabulation without the early return in 'create' mode.
onTabulationAnyMode(w, m, shiftKey) ==
  LET nextShape == ArrayGet(w.sh, NextIdx(CurrIdx(w.sh, w.ts), shiftKey, Len(w.sh)))
  IN IF nextShape # <<>> THEN TargetSet(w, nextShape) ELSE w

onTabulation(w, m, shiftKey) ==
  IF m = "create" THEN w
  ELSE LET nextShape == ArrayGet(w.sh, NextIdx(CurrIdx(w.sh, w.ts), shiftKey, Len(w.sh)))
       IN IF nextShape # <<>> THEN TargetSet(w, nextShape) ELSE w

\* targetShapes.forEach((s) => this.shapes.delete(s)): Set.prototype.forEach
\* visits the entries still in the set when their turn comes.
RECURSIVE DeleteEach(_, _)
DeleteEach(w, todo) ==
  IF todo = <<>> THEN w
  ELSE IF Has(w.ts, Head(todo))
       THEN DeleteEach(ShapesDelete(w, Head(todo)), Tail(todo))
       ELSE DeleteEach(w, Tail(todo))

\* keyBinding whose 'Delete' case only clears the selection.
keyBindingDeleteOnlyClears(w, m, key, shiftKey) ==
  IF key = "Tab" THEN onTabulation(w, m, shiftKey)
  ELSE IF key = "Delete" THEN TargetClear(w)
  ELSE IF key = "Escape" THEN TargetClear(w)
  ELSE w

\* keyBinding whose 'Escape' case runs the 'Delete' case (a shared case body).
keyBindingEscapeDeletes(w, m, key, shiftKey) ==
  IF key = "Tab" THEN onTabulation(w, m, shiftKey)
  ELSE IF key = "Delete" THEN TargetClear(DeleteEach(w, w.ts))
  ELSE IF key = "Escape" THEN TargetClear(DeleteEach(w, w.ts))
  ELSE w

\* keyBinding whose 'Escape' case runs the 'Tab' case.
keyBindingEscapeTabs(w, m, key, shiftKey) ==
  IF key = "Tab" THEN onTabulation(w, m, shiftKey)
  ELSE IF key = "Delete" THEN TargetClear(DeleteEach(w, w.ts))
  ELSE IF key = "Escape" THEN onTabulation(w, m, shiftKey)
  ELSE w

\* super.keyBinding(evt) runs first: Canvas is neither in the sources nor in
\* the specification, and is taken to leave collection, selection and mode
\* alone.
keyBinding(w, m, key, shiftKey) ==
  IF key = "Tab" THEN onTabulation(w, m, shiftKey)
  ELSE IF key = "Delete" THEN TargetClear(DeleteEach(w, w.ts))
  ELSE IF key = "Escape" THEN TargetClear(w)
  ELSE w

\* The setter selecting a new object made from an id instead of looking the
\* ids up in the collection.
SetSelectedShapeIdsUnfiltered(w, ids) ==
  [w |-> IF ids = {} THEN TargetSet(w, <<>>)
         ELSE TargetSet(w, <<Shape(FreshRef(RefsOf(w.sh) \cup RefsOf(w.ts)),
                                   CHOOSE i \in ids : TRUE, EmptyPayload)>>),
   err |-> "none"]

\* The setter selecting the first match only (find instead of filter).
SetSelectedShapeIdsFirstMatch(w, ids) ==
  LET found == SelectSeq(w.sh, LAMBDA s : s.id \in ids)
  IN [w |-> TargetSet(w, IF found = <<>> THEN <<>> ELSE <<Head(found)>>),
      err |-> "none"]

\* set selectedShapeIds(ids); ids.includes is membership in the list.  The
\* setter has no throw, and filter, includes and set take any list: the
\* caller gets no error.
SetSelectedShapeIds(w, ids) ==
  [w |-> TargetSet(w, SelectSeq(w.sh, LAMBDA s : s.id \in ids)),
   err |-> "none"]

\* set shapes(value): every element is wrapped by observable(), a new object.
RECURSIVE Observables(_, _, _)
Observables(value, used, acc) ==
  IF value = <<>> THEN acc
  ELSE LET r == FreshRef(used)
       IN Observables(Tail(value), used \cup {r},
                      Append(acc, Shape(r, Head(value).id, Head(value).p)))

SetShapes(w, value) ==
  ShapesSet(w, Observables(value, RefsOf(w.sh) \cup RefsOf(w.ts), <<>>))

-----------------------------------------------------------------------------
(* Clipboard text.  A text is a sequence of JSON tokens; JSON.parse is a   *)
(* recursive-descent parser over it.                                        *)

Tok(t, id, p) == [t |-> t, id |-> id, p |-> p]

TokOpen == Tok("[", NoId, EmptyPayload)
TokClose == Tok("]", NoId, EmptyPayload)
TokComma == Tok(",", NoId, EmptyPayload)
TokNum == Tok("num", NoId, EmptyPayload)
\* {"id":"a","p":1}
TokObj == Tok("obj", <<"a">>, 1)

Alphabet == {TokOpen, TokClose, TokComma, TokNum, TokObj}

Texts == UNION {[1 .. n -> Alphabet] : n \in 0 .. MaxTextLen}

\* A parsed value; the elements of an array keep their kind, id and own
\* properties (elems of a nested array are summarised in p).
Val(kind, id, p, elems) == [kind |-> kind, id |-> id, p |-> p, elems |-> elems]

ErrVal == Val("err", NoId, EmptyPayload, <<>>)

Elem(v) ==
  IF v.kind = "arr"
  THEN Val("arr", NoId, IF v.elems = <<>> THEN EmptyPayload ELSE ArrayPayload, <<>>)
  ELSE v

Fail == [ok |-> FALSE, val |-> ErrVal, rest |-> <<>>]

RECURSIVE ParseValue(_), ParseElements(_, _)
ParseValue(s) ==
  IF s = <<>> THEN Fail
  ELSE IF Head(s).t = "num"
  THEN [ok |-> TRUE, val |-> Val("num", NoId, EmptyPayload, <<>>), rest |-> Tail(s)]
  ELSE IF Head(s).t = "obj"
  THEN [ok |-> TRUE, val |-> Val("obj", Head(s).id, Head(s).p, <<>>), rest |-> Tail(s)]
  ELSE IF Head(s).t = "["
  THEN IF Tail(s) # <<>> /\ Head(Tail(s)).t = "]"
       THEN [ok |-> TRUE, val |-> Val("arr", NoId, EmptyPayload, <<>>),
             rest |-> Tail(Tail(s))]
       ELSE ParseElements(Tail(s), <<>>)
  ELSE Fail

ParseElements(s, acc) ==
  LET r == ParseValue(s)
  IN IF ~r.ok \/ r.rest = <<>> THEN Fail
     ELSE IF Head(r.rest).t = ","
     THEN ParseElements(Tail(r.rest), Append(acc, Elem(r.val)))
     ELSE IF Head(r.rest).t = "]"
     THEN [ok |-> TRUE,
           val |-> Val("arr", NoId, EmptyPayload, Append(acc, Elem(r.val))),
           rest |-> Tail(r.rest)]
     ELSE Fail

\* JSON.parse(text): the value, or ErrVal when it throws a SyntaxError.
JSONParse(text) ==
  LET r == ParseValue(text)
  IN IF r.ok /\ r.rest = <<>> THEN r.val ELSE ErrVal

\* What the texts parse to.
ParsedTexts == {JSONParse(t) : t \in Texts}

\* JSON.stringify of the elements of an array of shapes: one object literal
\* per shape, with its id and its own properties, separated by commas.
RECURSIVE StringifyElements(_)
StringifyElements(arr) ==
  IF Len(arr) = 1 THEN <<Tok("obj", Head(arr).id, Head(arr).p)>>
  ELSE <<Tok("obj", Head(arr).id, Head(arr).p), TokComma>>
         \o StringifyElements(Tail(arr))

JSONStringify(arr) ==
  IF arr = <<>> THEN <<TokOpen, TokClose>>
  ELSE <<TokOpen>> \o StringifyElements(arr) \o <<TokClose>>

\* A function that returns without a return statement.
Undefined == [ret |-> "undefined", text |-> <<>>]

\* onCopy(): the selected shapes as text, or nothing when none is selected.
onCopy(w) ==
  IF Len(w.ts) > 0
  THEN [ret |-> "string", text |-> JSONStringify(w.ts)]
  ELSE Undefined

-----------------------------------------------------------------------------
(* Math.random().toString(36).substring(7) *)

Digits36 == {"a", "b"}

\* The base-36 digits of the random number after "0.": five leading digits,
\* which substring(7) cuts off with the "0.", and the tail that becomes the
\* id.  Most doubles have a tail of several digits, some have one digit.
LeadingDigits == <<"a", "a", "a", "a", "a">>

\* The tails of 1 to MaxTail digits: the one-digit ids the host uses are
\* among them, and there are more tails than ids in use at any time.
Tails == UNION {[1 .. n -> Digits36] : n \in 1 .. MaxTail}

RandomValues == {LeadingDigits \o t : t \in Tails}

ToString36(r) == IF r = <<>> THEN <<"0">> ELSE <<"0", ".">> \o r

Substring(s, start) == SubSeq(s, start + 1, Len(s))

SubstringStart == 7

RandomId(r) == Substring(ToString36(r), SubstringStart)

GenIds == {RandomId(r) : r \in RandomValues}

AllIds == HostIds \cup GenIds

\* The draws of one Math.random() call, given the ids already in use: every
\* draw whose id is one of those or an id the host uses, and one draw for all
\* the others, which act alike (an id that is and will be the id of no other
\* shape unless it is drawn again).
DrawsOne(used) ==
  LET old == {r \in RandomValues : RandomId(r) \in used \cup HostIds}
  IN IF old = RandomValues THEN old
     ELSE old \cup {CHOOSE r \in RandomValues : r \notin old}

\* The draws of k successive calls; an id drawn is in use for the next call.
RECURSIVE Draws(_, _)
Draws(k, used) ==
  IF k = 0 THEN {<<>>}
  ELSE UNION {{<<r>> \o rest : rest \in Draws(k - 1, used \cup {RandomId(r)})} :
              r \in DrawsOne(used)}

\* onPaste(text), given what JSON.parse(text) does; rs[i] is the random number
\* drawn for the i-th element.  A SyntaxError thrown by JSON.parse reaches
\* the caller before anything else is done.
RECURSIVE PasteEach(_, _, _)
PasteEach(w, elems, rs) ==
  IF elems = <<>> THEN w
  ELSE LET shape == Shape(FreshRef(RefsOf(w.sh) \cup RefsOf(w.ts)),
                          RandomId(Head(rs)), Head(elems).p)
       IN PasteEach(ShapesAdd(w, shape), Tail(elems), Tail(rs))

\* onPaste whose loop starts at the second element.
onPasteSkipsFirst(w, value, rs) ==
  IF value.kind = "err" THEN [w |-> w, err |-> "SyntaxError"]
  ELSE IF value.kind = "arr"
  THEN [w |-> IF value.elems = <<>> THEN w
              ELSE PasteEach(w, Tail(value.elems), Tail(rs)),
        err |-> "none"]
  ELSE [w |-> w, err |-> "none"]

onPaste(w, value, rs) ==
  IF value.kind = "err" THEN [w |-> w, err |-> "SyntaxError"]
  ELSE IF value.kind = "arr"
  THEN [w |-> PasteEach(w, value.elems, rs), err |-> "none"]
  ELSE [w |-> w, err |-> "none"]

-----------------------------------------------------------------------------
(* The interaction mode: a LitElement property whose change is handled in  *)
(* updated(), which LitElement calls in a later microtask.                  *)

notifyModeEvent(w, m) == Emit(w, Ev("mode", <<>>, NoShape, m, w))

\* updated(changedProperties): new Event('mode') carries no detail.
updated(w, changed, m) ==
  IF "mode" \in changed /\ m # ""
  THEN Emit(ManagerSetMode(w, m), Ev("mode", <<>>, NoShape, "undefined", ManagerSetMode(w, m)))
  ELSE w

\* The property setter LitElement generates: a change is recorded for the
\* next update when the new value differs from the old one.
RequestUpdate(changed, old, new) ==
  IF new # old THEN changed \cup {"mode"} ELSE changed

-----------------------------------------------------------------------------
(* State machine *)

World == [sh |-> shapes, ts |-> targetShapes, mm |-> managerMode, ev |-> <<>>]

\* Object references are kept up to renaming: after every operation the
\* shapes of the collection are numbered by position, the selected shapes
\* outside it after them.
Outside(w) == SelectSeq(w.ts, LAMBDA t : ~Has(w.sh, t))

Position(s, x) == CHOOSE i \in 1 .. Len(s) : s[i].ref = x.ref

Renamed(w, x) ==
  IF x.ref = 0 THEN x
  ELSE IF Has(w.sh, x) THEN [x EXCEPT !.ref = Position(w.sh, x)]
  ELSE IF Has(w.ts, x) THEN [x EXCEPT !.ref = Len(w.sh) + Position(Outside(w), x)]
  ELSE [x EXCEPT !.ref = Len(w.sh) + Len(Outside(w)) + 1]

Commit(w) ==
  /\ shapes' = [i \in 1 .. Len(w.sh) |-> Renamed(w, w.sh[i])]
  /\ targetShapes' = [i \in 1 .. Len(w.ts) |-> Renamed(w, w.ts[i])]
  /\ managerMode' = w.mm
  /\ events' = [i \in 1 .. Len(w.ev) |->
                  [w.ev[i] EXCEPT !.shape = Renamed(w, w.ev[i].shape)]]

\* n: the size of the selection before (Tab, Delete, update, updated), the number of
\* elements handed over (paste, shapes), whether the shape was selected (delete).
\* arg: the kind of value the pasted text parsed to; ps: the own properties
\* of its elements, in order; ids: the ids assigned to selectedShapeIds;
\* again: the Escape key was the operation before, too.
Op(name, err, n, differs, pending) ==
  [op |-> name, err |-> err, n |-> n, differs |-> differs, pending |-> pending,
   arg |-> "", ps |-> <<>>, ids |-> {}, again |-> FALSE]

\* Keyboard navigation history: first is the position of the shape the
\* first Tab selected out of an empty selection and count the Tab presses
\* since; before is the position of the single selected shape before the
\* last press and back the one before the press preceding it (0: none),
\* prevOp the operation preceding the last press.
NoNav == [first |-> 0, count |-> 0, before |-> 0, back |-> 0, prevOp |-> ""]

Presses == {"Tab", "ShiftTab"}

SinglePosition(sh, ts) ==
  IF Len(ts) = 1 /\ Has(sh, ts[1]) THEN Position(sh, ts[1]) ELSE 0

NavAfter(shiftKey, w) ==
  [first |->
     IF ~shiftKey /\ mode # "create" /\ targetShapes = <<>> /\ w.ts # <<>>
     THEN Position(w.sh, w.ts[1])
     ELSE IF ~shiftKey /\ mode # "create" /\ nav.first # 0 /\ nav.count < Len(shapes)
     THEN nav.first
     ELSE 0,
   count |->
     IF ~shiftKey /\ mode # "create" /\ targetShapes # <<>>
        /\ nav.first # 0 /\ nav.count < Len(shapes)
     THEN nav.count + 1
     ELSE 0,
   before |-> SinglePosition(shapes, targetShapes),
   back |-> IF lastOp.op \in Presses THEN nav.before ELSE 0,
   prevOp |-> IF lastOp.op \in Presses THEN lastOp.op ELSE ""]

Init ==
  /\ mode = "edit"
  /\ changedProperties = {"mode"}
  /\ shapes = <<>>
  /\ targetShapes = <<>>
  /\ managerMode = mode
  /\ events = <<>>
  /\ lastOp = Op("constructor", "none", 0, FALSE, FALSE)
  /\ nav = NoNav
  /\ clipboard = Undefined

Press(shiftKey) ==
  /\ Commit(keyBinding(World, mode, "Tab", shiftKey))
  /\ lastOp' = Op(IF shiftKey THEN "ShiftTab" ELSE "Tab", "none",
                  Len(targetShapes), FALSE, FALSE)
  /\ UNCHANGED <<mode, changedProperties, clipboard>>

KeyTab(shiftKey) == Press(shiftKey) /\ nav' = NoNav

KeyDelete ==
  /\ Commit(keyBinding(World, mode, "Delete", FALSE))
  /\ lastOp' = Op("Delete", "none", Len(targetShapes), FALSE, FALSE)
  /\ nav' = NoNav
  /\ UNCHANGED <<mode, changedProperties, clipboard>>

KeyEscape ==
  /\ Commit(keyBinding(World, mode, "Escape", FALSE))
  /\ lastOp' = [Op("Escape", "none", 0, FALSE, FALSE)
                  EXCEPT !.again = (lastOp.op = "Escape")]
  /\ nav' = NoNav
  /\ UNCHANGED <<mode, changedProperties, clipboard>>

KeyOther ==
  /\ Commit(keyBinding(World, mode, "a", FALSE))
  /\ lastOp' = Op("Key", "none", 0, FALSE, FALSE)
  /\ nav' = NoNav
  /\ UNCHANGED <<mode, changedProperties, clipboard>>

\* The ids of the shapes in the collection, in the selection and in the text
\* last copied.
IdsInUse ==
  Range(IdsOf(shapes)) \cup Range(IdsOf(targetShapes))
    \cup {clipboard.text[i].id : i \in {j \in 1 .. Len(clipboard.text) :
                                          clipboard.text[j].t = "obj"}}

\* The ids the host selects by: those of the shapes in the collection and one
\* id of no shape.
SelectableIds ==
  LET ids == Range(IdsOf(shapes))
  IN ids \cup {CHOOSE i \in AllIds : i \notin ids}

AssignSelectedShapeIds ==
  \E ids \in SUBSET SelectableIds :
    /\ Commit(SetSelectedShapeIds(World, ids).w)
    /\ lastOp' = [Op("selectedShapeIds", SetSelectedShapeIds(World, ids).err,
                     0, FALSE, FALSE)
                    EXCEPT !.ids = ids]
    /\ nav' = NoNav
    /\ UNCHANGED <<mode, changedProperties, clipboard>>

\* The host hands over shapes with pairwise distinct ids.
HostShapes == [id : HostIds, p : Payloads]

HostValues ==
  {v \in UNION {[1 .. n -> HostShapes] : n \in 0 .. MaxShapes} :
     \A i, j \in 1 .. Len(v) : v[i].id = v[j].id => i = j}

AssignShapes ==
  \E value \in HostValues :
    /\ Commit(SetShapes(World, value))
    /\ lastOp' = Op("shapes", "none", Len(value), FALSE, FALSE)
    /\ nav' = NoNav
    /\ UNCHANGED <<mode, changedProperties, clipboard>>

AddShape ==
  \E h \in HostShapes :
    /\ Len(shapes) < MaxShapes
    /\ \A i \in 1 .. Len(shapes) : shapes[i].id # h.id
    /\ Commit(ShapesAdd(World,
                Shape(FreshRef(RefsOf(shapes) \cup RefsOf(targetShapes)), h.id, h.p)))
    /\ lastOp' = Op("add", "none", 0, FALSE, FALSE)
    /\ nav' = NoNav
    /\ UNCHANGED <<mode, changedProperties, clipboard>>

DeleteShape ==
  \E i \in 1 .. Len(shapes) :
    /\ Commit(ShapesDelete(World, shapes[i]))
    /\ lastOp' = Op("delete", "none",
                    IF Has(targetShapes, shapes[i]) THEN 1 ELSE 0, FALSE, FALSE)
    /\ nav' = NoNav
    /\ UNCHANGED <<mode, changedProperties, clipboard>>

\* onPaste(text), text parsing to value.
PasteValue(value) ==
  \E rs \in Draws(Len(value.elems), IdsInUse) :
    LET r == onPaste(World, value, rs)
    IN /\ Len(shapes) + Len(value.elems) <= MaxShapes
       /\ Commit(r.w)
       /\ lastOp' = [Op("paste", r.err, Len(value.elems), FALSE, FALSE)
                       EXCEPT !.arg = value.kind,
                              !.ps = [i \in 1 .. Len(value.elems) |->
                                        value.elems[i].p]]
       /\ nav' = NoNav
       /\ UNCHANGED <<mode, changedProperties, clipboard>>

Paste == \E value \in ParsedTexts : PasteValue(value)

\* The texts that hold a list of shapes, as onCopy writes them.
ShapeLists ==
  {v \in ParsedTexts :
     v.kind = "arr" /\ \A i \in 1 .. Len(v.elems) : v.elems[i].kind = "obj"}

\* onPaste(text) of such a text.
PasteShapes == \E value \in ShapeLists : PasteValue(value)

\* The manager dispatches 'update' for the shapes being edited.
Update ==
  /\ targetShapes # <<>>
  /\ Commit(ManagerUpdateListener(World, ManagerUpdate(World)))
  /\ lastOp' = Op("update", "none", Len(targetShapes), FALSE, FALSE)
  /\ nav' = NoNav
  /\ UNCHANGED <<mode, changedProperties, clipboard>>

AssignMode ==
  \E m \in Modes :
    /\ mode' = m
    /\ changedProperties' = RequestUpdate(changedProperties, mode, m)
    /\ Commit(World)
    /\ lastOp' = Op("mode", "none", 0, m # mode, changedProperties # {})
    /\ nav' = NoNav
    /\ UNCHANGED clipboard

\* notifyMode(mode): the assignment, then the event, dispatched at once.
NotifyMode ==
  \E m \in Modes :
    /\ mode' = m
    /\ changedProperties' = RequestUpdate(changedProperties, mode, m)
    /\ Commit(notifyModeEvent(World, m))
    /\ lastOp' = Op("notifyMode", "none", 0, m # mode, changedProperties # {})
    /\ nav' = NoNav
    /\ UNCHANGED clipboard

\* The update LitElement runs once changes are pending.
Updated ==
  /\ changedProperties # {}
  /\ changedProperties' = {}
  /\ Commit(updated(World, changedProperties, mode))
  /\ lastOp' = Op("updated", "none", Len(targetShapes), FALSE, TRUE)
  /\ nav' = NoNav
  /\ UNCHANGED <<mode, clipboard>>

Next ==
  \/ KeyTab(FALSE)
  \/ KeyTab(TRUE)
  \/ KeyDelete
  \/ KeyEscape
  \/ KeyOther
  \/ AssignSelectedShapeIds
  \/ AssignShapes
  \/ AddShape
  \/ DeleteShape
  \/ PasteShapes
  \/ Update
  \/ AssignMode
  \/ NotifyMode
  \/ Updated

Spec == Init /\ [][Next]_vars

-----------------------------------------------------------------------------
(* Keyboard navigation over collections of up to MaxNav shapes, with the   *)
(* history of the presses.                                                  *)

\* The i-th shape of the navigation collections; its id is i characters long.
NavShape(i) == Shape(i, [j \in 1 .. i |-> "x"], 1)

NavInit ==
  /\ mode \in Modes
  /\ changedProperties = {}
  /\ \E n \in 0 .. MaxNav : shapes = [i \in 1 .. n |-> NavShape(i)]
  /\ targetShapes = <<>>
  /\ managerMode = mode
  /\ events = <<>>
  /\ lastOp = Op("constructor", "none", 0, FALSE, FALSE)
  /\ nav = NoNav
  /\ clipboard = Undefined

NavKeyTab(shiftKey) ==
  Press(shiftKey) /\ nav' = NavAfter(shiftKey, keyBinding(World, mode, "Tab", shiftKey))

NavNext ==
  \/ NavKeyTab(FALSE)
  \/ NavKeyTab(TRUE)
  \/ KeyEscape

NavSpec == NavInit /\ [][NavNext]_vars

-----------------------------------------------------------------------------
(* Tab and Shift+Tab from any selection in collections of up to MaxNav      *)
(* shapes, as the host and pastes may have left them: ids may repeat, and   *)
(* assigning selectedShapeIds selects the shapes that share an id.          *)

TabCollections ==
  UNION {{[i \in 1 .. n |-> Shape(i, f[i], 1)] : f \in [1 .. n -> HostIds]} :
         n \in 0 .. MaxNav}

TabInit ==
  /\ mode \in Modes
  /\ changedProperties = {}
  /\ shapes \in TabCollections
  /\ targetShapes = <<>>
  /\ managerMode = mode
  /\ events = <<>>
  /\ lastOp = Op("constructor", "none", 0, FALSE, FALSE)
  /\ nav = NoNav
  /\ clipboard = Undefined

TabNext ==
  \/ KeyTab(FALSE)
  \/ KeyTab(TRUE)
  \/ AssignSelectedShapeIds
  \/ KeyEscape

TabSpec == TabInit /\ [][TabNext]_vars

-----------------------------------------------------------------------------
(* Editing the collection and the selection in a given mode, with no update *)
(* pending: these operations neither read nor write changedProperties, and  *)
(* none of them changes the mode.                                           *)

EditInit ==
  /\ mode \in Modes
  /\ changedProperties = {}
  /\ shapes = <<>>
  /\ targetShapes = <<>>
  /\ managerMode = mode
  /\ events = <<>>
  /\ lastOp = Op("constructor", "none", 0, FALSE, FALSE)
  /\ nav = NoNav
  /\ clipboard = Undefined

EditNext ==
  \/ KeyTab(FALSE)
  \/ KeyTab(TRUE)
  \/ KeyDelete
  \/ KeyEscape
  \/ AssignSelectedShapeIds
  \/ AssignShapes
  \/ AddShape
  \/ DeleteShape
  \/ PasteShapes
  \/ Update

EditSpec == EditInit /\ [][EditNext]_vars

-----------------------------------------------------------------------------
(* onPaste of any text, be it no JSON, no array or an array of any values,  *)
(* into a collection that the host and earlier pastes have filled and from  *)
(* which shapes are deleted.                                                *)

PasteNext ==
  \/ Paste
  \/ AssignShapes
  \/ DeleteShape

PasteSpec == Init /\ [][PasteNext]_vars

-----------------------------------------------------------------------------
(* Copy and paste: the host keeps the text onCopy returns and hands it to  *)
(* onPaste later.                                                           *)

ClipPayloads == {1, 2}

ClipShapes == {[id |-> i, p |-> p] : i \in HostIds, p \in ClipPayloads}

ClipValues ==
  {v \in UNION {[1 .. n -> ClipShapes] : n \in 0 .. MaxShapes} :
     \A i, j \in 1 .. Len(v) : v[i].id = v[j].id => i = j}

AssignClipShapes ==
  \E value \in ClipValues :
    /\ Commit(SetShapes(World, value))
    /\ lastOp' = Op("shapes", "none", Len(value), FALSE, FALSE)
    /\ nav' = NoNav
    /\ UNCHANGED <<mode, changedProperties, clipboard>>

Copy ==
  /\ clipboard' = onCopy(World)
  /\ Commit(World)
  /\ lastOp' = Op("copy", "none", Len(targetShapes), FALSE, FALSE)
  /\ nav' = NoNav
  /\ UNCHANGED <<mode, changedProperties>>

PasteClipboard ==
  /\ clipboard.ret = "string"
  /\ PasteValue(JSONParse(clipboard.text))

ClipNext ==
  \/ AssignClipShapes
  \/ AssignSelectedShapeIds
  \/ Copy
  \/ PasteClipboard

ClipSpec == Init /\ [][ClipNext]_vars

-----------------------------------------------------------------------------
(* Properties *)

EventsOf(type) == SelectSeq(events, LAMBDA e : e.type = type)

\* C1: after every operation, every selected shape is a member of the
\* collection.
C1_SubsetInvariant ==
  \A i \in 1 .. Len(targetShapes) : Has(shapes, targetShapes[i])

\* shapes.delete removed one of two selected shapes; the other stays selected.
C1_Witness ==
  /\ lastOp.op = "delete"
  /\ lastOp.n = 1
  /\ targetShapes # <<>>

\* C2: the Delete key with k >= 1 selected shapes dispatches exactly one
\* 'delete' event whose id list has length k and exactly one 'selection'
\* event; with an empty selection it dispatches no 'selection' event.
C2_DeleteKeySingleEvents ==
  lastOp.op = "Delete" =>
    /\ lastOp.n >= 1 =>
         /\ Len(EventsOf("delete")) = 1
         /\ Len(EventsOf("delete")[1].ids) = lastOp.n
         /\ Len(EventsOf("selection")) = 1
    /\ lastOp.n = 0 => EventsOf("selection") = <<>>

\* C3: when a 'delete' event is delivered for a selected shape (Delete key,
\* or shapes.delete of a selected shape), none of its ids is in
\* selectedShapeIds as the listener reads it at that moment.
C3_DeletedIdNotSelected ==
  (lastOp.op = "Delete" \/ (lastOp.op = "delete" /\ lastOp.n = 1)) =>
    \A i \in 1 .. Len(events) :
      events[i].type = "delete" =>
        \A j \in 1 .. Len(events[i].ids) :
          \A k \in 1 .. Len(events[i].sel) : events[i].sel[k] # events[i].ids[j]

\* C4: every change of the selection made by Tab, Shift+Tab, assigning
\* selectedShapeIds, Escape or the Delete key dispatches a 'selection' event
\* whose payload is the list of ids selected after the change.
C4_SelectionChangeNotifies ==
  [][(/\ lastOp'.op \in {"Tab", "ShiftTab", "selectedShapeIds", "Escape", "Delete"}
      /\ targetShapes' # targetShapes)
     => \E i \in 1 .. Len(events') :
          /\ events'[i].type = "selection"
          /\ events'[i].ids = IdsOf(targetShapes')]_vars

\* C5: a mode request (assigning mode, or notifyMode) made while no update is
\* pending accounts for exactly one 'mode' event when the new mode differs
\* from the current one - dispatched by the request itself or by the update
\* it schedules - and for none when the mode is unchanged.
C5_OneModeEventPerChange ==
  (lastOp.op \in {"mode", "notifyMode"} /\ ~lastOp.pending) =>
    Len(EventsOf("mode")) + (IF "mode" \in changedProperties THEN 1 ELSE 0)
      = (IF lastOp.differs THEN 1 ELSE 0)

\* C6: when the mode changes into 'none', the selection is empty afterwards:
\* no shape selected before the transition is still selected.
C6_NoneClearsSelection ==
  [][(mode' = "none" /\ mode # "none") => targetShapes' = <<>>]_vars

\* C7: with n >= 1 shapes, mode not 'create' and no selection, the first Tab
\* selects one determined shape (the one before the last, the only one when
\* n = 1); n further Tab presses return to it; and a Shift+Tab after a Tab,
\* or a Tab after a Shift+Tab, restores the single selection held before.
C7_CyclicNavigation ==
  /\ (/\ lastOp.op = "Tab"
      /\ mode # "create"
      /\ Len(shapes) >= 1
      /\ nav.before = 0)
     => /\ nav.first = (IF Len(shapes) = 1 THEN 1 ELSE Len(shapes) - 1)
        /\ nav.count = 0
        /\ targetShapes = <<shapes[nav.first]>>
  /\ (nav.first # 0 /\ nav.count = Len(shapes))
     => targetShapes = <<shapes[nav.first]>>
  /\ (/\ lastOp.op \in Presses
      /\ nav.prevOp \in Presses
      /\ nav.prevOp # lastOp.op
      /\ nav.back # 0
      /\ mode # "create")
     => targetShapes = <<shapes[nav.back]>>

\* Five shapes, and the fifth Tab after the first one has been pressed.
C7_Witness ==
  /\ Len(shapes) = MaxNav
  /\ nav.first # 0
  /\ nav.count = Len(shapes)
  /\ targetShapes = <<shapes[nav.first]>>

\* C8: Tab and Shift+Tab in 'create' mode, or with an empty collection, leave
\* the selection and the collection as they are and dispatch no event.
C8_TabNoOp ==
  [][(/\ lastOp'.op \in Presses
      /\ (mode = "create" \/ shapes = <<>>))
     => /\ shapes' = shapes
        /\ targetShapes' = targetShapes
        /\ events' = <<>>]_vars

\* Tab was pressed in 'create' mode with two shapes, one of them selected.
C8_Witness ==
  /\ lastOp.op = "Tab"
  /\ mode = "create"
  /\ Len(shapes) = 2
  /\ Len(targetShapes) = 1
  /\ events = <<>>

\* C9: every shape added by onPaste has an id distinct from the id of every
\* shape in the collection when it is added (the shapes added before it by
\* the same paste included).
C9_PastedIdsFresh ==
  lastOp.op = "paste" =>
    \A j \in (Len(shapes) - lastOp.n + 1) .. Len(shapes) :
      \A i \in 1 .. (j - 1) : shapes[i].id # shapes[j].id

\* C10: onPaste of a text that does not parse, or that parses to a value
\* that is no sequence, ends with an error reported to the caller and leaves
\* the collection as it was; a sequence of k payloads adds k shapes.
C10_MalformedPasteFails ==
  [][lastOp'.op = "paste" =>
       /\ lastOp'.arg # "arr" => (lastOp'.err # "none" /\ shapes' = shapes)
       /\ lastOp'.arg = "arr" => Len(shapes') = Len(shapes) + lastOp'.n]_vars

\* A shape without its object reference.
Plain(x) == [id |-> x.id, p |-> x.p]

Plains(s) == [i \in 1 .. Len(s) |-> Plain(s[i])]

\* C12: after the Delete key, the collection is the collection before
\* without the shapes that were selected, in the same order, and the
\* selection is empty.
C12_DeleteRemovesSelection ==
  [][lastOp'.op = "Delete" =>
       /\ Plains(shapes') = Plains(SelectSeq(shapes, LAMBDA x : ~Has(targetShapes, x)))
       /\ targetShapes' = <<>>]_vars

\* Delete was pressed with one of two shapes selected; the other one is left.
C12_Witness ==
  /\ lastOp.op = "Delete"
  /\ lastOp.n = 1
  /\ Len(shapes) = 1
  /\ targetShapes = <<>>

\* C13: assigning selectedShapeIds raises no error and selects exactly the
\* shapes of the collection whose id is in the list; the other ids are
\* ignored.
C13_SelectFiltersIds ==
  lastOp.op = "selectedShapeIds" =>
    /\ lastOp.err = "none"
    /\ targetShapes = SelectSeq(shapes, LAMBDA x : x.id \in lastOp.ids)

\* An id of the collection and an id of no shape were assigned.
C13_Witness ==
  /\ lastOp.op = "selectedShapeIds"
  /\ Len(targetShapes) = 1
  /\ Len(shapes) = 2
  /\ \E i \in lastOp.ids : \A j \in 1 .. Len(shapes) : shapes[j].id # i
  /\ \E i \in lastOp.ids : \E j \in 1 .. Len(shapes) : shapes[j].id = i

\* C14: with no shape selected, Tab and Shift+Tab select the shape they
\* would select if the shape at index 0 had been the sole selection.
C14_NoSelectionActsAsIndexZero ==
  [][(lastOp'.op \in Presses /\ mode # "create"
        /\ targetShapes = <<>> /\ shapes # <<>>) =>
       targetShapes' = onTabulation([World EXCEPT !.ts = <<shapes[1]>>], mode,
                                    lastOp'.op = "ShiftTab").ts]_vars

\* C15: outside 'create' mode, with a selection in a collection of n shapes,
\* Tab selects exactly the shape at index (i - 1) mod n and Shift+Tab the
\* one at (i + 1) mod n, i being the index of the first selected shape in
\* the collection's order; the collection is left alone.
C15_TabFromFirstSelected ==
  [][(lastOp'.op \in Presses /\ mode # "create"
        /\ targetShapes # <<>> /\ shapes # <<>>) =>
       LET n == Len(shapes)
           i == (CHOOSE k \in 1 .. n :
                   /\ Has(targetShapes, shapes[k])
                   /\ \A j \in 1 .. (k - 1) : ~Has(targetShapes, shapes[j])) - 1
           t == IF lastOp'.op = "ShiftTab" THEN (i + 1) % n ELSE (i - 1) % n
       IN /\ targetShapes' = <<shapes[t + 1]>>
          /\ shapes' = shapes]_vars

\* Shift+Tab was pressed outside 'create' mode with two of three shapes
\* selected, and the third one is selected now: the second and the third
\* were selected before (Tab would have selected the first).
C15_Witness ==
  /\ lastOp.op = "ShiftTab"
  /\ mode # "create"
  /\ Len(shapes) = 3
  /\ lastOp.n = 2
  /\ targetShapes = <<shapes[3]>>

\* C16: every 'mode' event dispatched carries the mode as its payload,
\* whether updated() or notifyMode dispatched it.
C16_ModeEventCarriesMode ==
  \A i \in 1 .. Len(events) :
    events[i].type = "mode" => events[i].detail = mode

\* C17: in every mode the Escape key empties the selection and leaves the
\* collection as it was, with no 'create' and no 'delete' event.
C17_EscapeClearsSelectionOnly ==
  [][lastOp'.op = "Escape" =>
       /\ targetShapes' = <<>>
       /\ shapes' = shapes
       /\ mode' = mode
       /\ \A i \in 1 .. Len(events') : events'[i].type \notin {"create", "delete"}]_vars

\* Escape was pressed in 'create' mode on a collection of two shapes.
C17_Witness ==
  /\ lastOp.op = "Escape"
  /\ mode = "create"
  /\ Len(shapes) = 2
  /\ targetShapes = <<>>

\* C18: a second Escape right after a first one changes nothing: collection,
\* selection and mode stay as the first one left them, and a 'selection'
\* event, if one is dispatched, has the same empty content.
C18_SecondEscapeNoOp ==
  [][(lastOp.op = "Escape" /\ lastOp'.op = "Escape") =>
       /\ shapes' = shapes
       /\ targetShapes' = targetShapes
       /\ targetShapes' = <<>>
       /\ mode' = mode
       /\ changedProperties' = changedProperties
       /\ \A i \in 1 .. Len(events') :
            /\ events'[i].type = "selection"
            /\ events'[i].ids = <<>>]_vars

\* Escape was pressed twice in a row.
C18_Witness ==
  /\ lastOp.op = "Escape"
  /\ lastOp.again
  /\ shapes # <<>>
  /\ targetShapes = <<>>

\* C19: assigning shapes dispatches no 'create' event for the shapes that
\* enter and no 'delete' event for the shapes that leave.
C19_ReplaceIsSilent ==
  lastOp.op = "shapes" =>
    \A i \in 1 .. Len(events) : events[i].type \notin {"create", "delete"}

\* Two shapes were assigned.
C19_Witness ==
  /\ lastOp.op = "shapes"
  /\ lastOp.n = 2
  /\ Len(shapes) = 2
  /\ events = <<>>

\* C20: pasting a text that parses to a sequence of k payloads appends k
\* shapes to the collection, leaving the shapes before as they were, and
\* dispatches k 'create' events, the j-th carrying the j-th shape added,
\* which has the own properties of the j-th payload.
C20_PasteCreatesInOrder ==
  [][(lastOp'.op = "paste" /\ lastOp'.arg = "arr") =>
       LET k == lastOp'.n
           old == Len(shapes)
       IN /\ Len(shapes') = old + k
          /\ SubSeq(shapes', 1, old) = shapes
          /\ Len(events') = k
          /\ \A j \in 1 .. k :
               /\ events'[j].type = "create"
               /\ events'[j].shape = shapes'[old + j]
               /\ shapes'[old + j].p = lastOp'.ps[j]]_vars

\* A sequence of two different payloads was pasted.
C20_Witness ==
  /\ lastOp.op = "paste"
  /\ lastOp.arg = "arr"
  /\ lastOp.n = 2
  /\ lastOp.ps[1] # lastOp.ps[2]
  /\ Len(shapes) = 2
  /\ Len(events) = 2

\* The ids and own properties of the shapes a copied text holds.
Copied(cb) ==
  LET v == JSONParse(cb.text)
  IN [j \in 1 .. Len(v.elems) |-> [id |-> v.elems[j].id, p |-> v.elems[j].p]]

\* C11: onCopy with no selection returns nothing and changes nothing; with a
\* selection it returns a text holding the selected shapes, and pasting that
\* text into the emptied collection gives as many shapes, with the same own
\* properties one for one and with ids that are ids of none of the copied
\* shapes.
C11_CopyPasteRoundTrip ==
  [][/\ (lastOp'.op = "copy" /\ targetShapes = <<>>) =>
          /\ clipboard'.ret = "undefined"
          /\ UNCHANGED <<shapes, targetShapes, mode, changedProperties>>
          /\ events' = <<>>
     /\ (lastOp'.op = "copy" /\ targetShapes # <<>>) =>
          /\ clipboard'.ret = "string"
          /\ Copied(clipboard') = Plains(targetShapes)
     /\ (lastOp'.op = "paste" /\ shapes = <<>>) =>
          LET c == Copied(clipboard)
          IN /\ Len(shapes') = Len(c)
             /\ \A j \in 1 .. Len(c) : shapes'[j].p = c[j].p
             /\ \A i, j \in 1 .. Len(c) : shapes'[i].id # c[j].id]_vars

====
